---- MODULE Spec2Model ----
(***************************************************************************)
(* Model of packages/core/middleware/middleware-module.ts (MiddlewareModule) *)
(*                                                                         *)
(* The module runs in two phases.  register()/resolveMiddleware() calls    *)
(* every module's configure() hook, appends the built configurations to    *)
(* the middleware container and asks the resolver for the instances.       *)
(* registerMiddleware() then fans out over module / configuration / route  *)
(* / middleware type with nested Promise.all and binds every middleware    *)
(* into the router through bindHandler().                                  *)
(*                                                                         *)
(* Promises are modelled as nodes of a tree, named by their path:          *)
(*   <<1>>              register() = resolveMiddleware()                   *)
(*   <<1,mi>>           the async callback of module number mi             *)
(*   <<1,mi,1>>         resolver.resolveInstances(module, name)            *)
(*   <<2>>              registerMiddleware()                               *)
(*   <<2,mi>>           callback of the mi-th entry of getConfigs()        *)
(*   <<2,mi,ci>>        callback of its ci-th configuration                *)
(*   <<2,mi,ci,ri>>     callback of the ri-th route of forRoutes           *)
(*   <<2,mi,ci,ri,ti>>  callback of the ti-th middleware type (a binding)  *)
(*   <<2,mi,ci,ri,ti,1>>    bindHandler() of that binding                  *)
(*   <<2,mi,ci,ri,ti,1,1>>  the Promise returned by instance.resolve()     *)
(* A path ending in 0 names the already fulfilled Promise.all([]) of a     *)
(* node without children.  The job queue of the JavaScript run time is the *)
(* FIFO sequence microtasks: one job delivers the settlement of a node to  *)
(* the node that awaits it.                                                *)
(***************************************************************************)
EXTENDS Integers, Sequences, FiniteSets, TLC

(* Total number of bindings (module, configuration, route, middleware type) *)
(* the configure() hooks of one run declare.                                *)
MaxBindings == 2

(* Number of times resolveMiddleware() runs over the module set: once from  *)
(* register() and, it being public, again when the caller calls it.         *)
MaxRuns == 2

(* container.getModules(): the module map, in insertion order. *)
ModuleOrder == <<"M1", "M2">>
ModuleNames == {ModuleOrder[i] : i \in 1..Len(ModuleOrder)}

(* Names of the middleware classes and the route paths the hooks use. *)
TypeOrder == <<"A", "B">>
Types == {TypeOrder[i] : i \in 1..Len(TypeOrder)}
RouteOrder == <<"/a", "/b">>
Routes == {RouteOrder[i] : i \in 1..Len(RouteOrder)}

(* What module.instance.configure is:                                      *)
(*   none     - the instance has no configure hook                         *)
(*   builder  - the hook applies its configurations, returns the builder   *)
(*   foreign  - the hook applies them and returns some other value         *)
(*   throws   - the hook throws synchronously                              *)
(*   rejects  - the hook is async: it applies them and returns a Promise   *)
(*              that rejects                                               *)
(*   async    - the hook is async: it applies all but its last             *)
(*              configuration, suspends at an await and applies the last   *)
(*              one when it resumes                                        *)
HookKinds == {"none", "builder", "foreign", "throws", "rejects", "async"}

(* What instance.resolve of a middleware instance is:                      *)
(*   noresolve - undefined                                                 *)
(*   handler   - a function returning the handler directly                 *)
(*   promise   - a function returning a native Promise of the handler      *)
(*   thenable  - a function returning an awaitable that is not an instance *)
(*               of the global Promise (foreign promise library, other     *)
(*               realm)                                                    *)
InstanceKinds == {"noresolve", "handler", "promise", "thenable"}

NoErr == [type |-> "none", name |-> ""]
RuntimeException == [type |-> "RuntimeException", name |-> ""]
InvalidMiddlewareException(name) == [type |-> "InvalidMiddlewareException", name |-> name]
HookError(module) == [type |-> "HookError", name |-> module]
ResolveError(owner, name) == [type |-> "ResolveError", name |-> owner \o "." \o name]
InstancesError(module) == [type |-> "InstancesError", name |-> module]

-----------------------------------------------------------------------------
(* Middleware configurations *)

(* config.middleware is a single class or an array of classes. *)
Single(t) == [isArray |-> FALSE, item |-> t, items |-> <<>>]
Array(s) == [isArray |-> TRUE, item |-> "", items |-> s]

SeqsOfLen(S, n) == [1..n -> S]

(* The forRoutes lists of n paths the hooks use: the paths in turn,        *)
(* starting from any of them.                                              *)
RouteLists(n) ==
    {[i \in 1..n |-> RouteOrder[((i + k) % Len(RouteOrder)) + 1]] :
        k \in 1..Len(RouteOrder)}

MiddlewareFields(n) ==
    {Array(s) : s \in SeqsOfLen(Types, n)}
        \cup (IF n = 1 THEN {Single(t) : t \in Types} ELSE {})

(* The configurations that declare exactly n bindings.  A configuration is *)
(* an object: call tells which configure() call created it, 0 before any.  *)
ConfigsWith(n) ==
    UNION {{[middleware |-> mw, forRoutes |-> rs, call |-> 0] :
                mw \in MiddlewareFields(a), rs \in RouteLists(n \div a)} :
           a \in {d \in 1..n : n % d = 0}}

(* The configuration lists (what one hook applies) declaring exactly n     *)
(* bindings.  A single class and the array of that one class are read the  *)
(* same way (line 129): the first configuration of a list comes in both    *)
(* forms, those after it as arrays.                                        *)
OnlyArrays(list) == \A i \in 1..Len(list) : list[i].middleware.isArray

ListsWith[n \in 0..MaxBindings] ==
    IF n = 0 THEN {<<>>}
    ELSE UNION {{<<c>> \o l : c \in ConfigsWith(k),
                               l \in {x \in ListsWith[n - k] : OnlyArrays(x)}} :
                k \in 1..n}

(* [].concat(config.middleware) *)
ConcatEmpty_first(mw) == IF mw.isArray THEN <<mw.items[1]>> ELSE <<mw.item>>
ConcatEmpty(mw) == IF mw.isArray THEN mw.items ELSE <<mw.item>>

(* f[1] \o ... \o f[n] *)
RECURSIVE Flat(_, _)
Flat(f, n) == IF n = 0 THEN <<>> ELSE Flat(f, n - 1) \o f[n]

Front(s) == SubSeq(s, 1, Len(s) - 1)
Last(s) == s[Len(s)]

-----------------------------------------------------------------------------
VARIABLES
    modules,      \* the module instances: their configure hook and what it applies
    hooks,        \* per module: how far its configure() call is, the builder it was given
    runs,         \* the number of resolveMiddleware() calls so far
    configs,      \* MiddlewareContainer.configs: entries (module, list) in insertion order
    wrappers,     \* MiddlewareContainer.middleware: module -> type name -> wrapper
    promise,      \* the promises created so far: path -> status, error, children left
    microtasks,   \* the job queue
    router,       \* the calls the router has received, in order
    bind,         \* per binding: what bindHandler has done for it
    unhandled,    \* errors of rejected promises nobody awaits
    firstFailure, \* the binding that raised the first error of registerMiddleware()
    pc            \* where the caller is: "start", "resolve", "bind"

vars == <<modules, hooks, runs, configs, wrappers, promise, microtasks, router, bind,
         unhandled, firstFailure, pc>>

NoWrapper == [defined |-> FALSE, owner |-> "", metatype |-> "", kind |-> ""]
Wrapper(m, t, k) == [defined |-> TRUE, owner |-> m, metatype |-> t, kind |-> k]

Pending(n) == [status |-> "pending", err |-> NoErr, remaining |-> n]
Fulfilled == [status |-> "fulfilled", err |-> NoErr, remaining |-> 0]
Rejected(e) == [status |-> "rejected", err |-> e, remaining |-> 0]

Job(node, ok, err) == [node |-> node, ok |-> ok, err |-> err]

Status(node) == IF node \in DOMAIN promise THEN promise[node].status ELSE "none"

Put(f, k, v) == (k :> v) @@ f

-----------------------------------------------------------------------------
(* Phase 1: register() -> resolveMiddleware() -> loadConfiguration() *)

(* new MiddlewareBuilder(this.routesMapper) *)
NewMiddlewareBuilder == [kind |-> "MiddlewareBuilder", collection |-> <<>>]

(* instanceof MiddlewareBuilder *)
IsMiddlewareBuilder(x) == x.kind = "MiddlewareBuilder"

(* instance.configure(builder), up to the point where it returns: the      *)
(* hook's effect on the builder, whether it threw, the value it returned,  *)
(* when that value is a Promise that rejects the error it rejects with,    *)
(* and whether the hook is suspended at an await when it returns.          *)
Configure(instance, builder, module) ==
    LET applied == [builder EXCEPT !.collection = @ \o instance.applies]
    IN  CASE instance.configure = "throws" ->
                [threw |-> TRUE, err |-> HookError(module), builder |-> builder,
                 returned |-> [kind |-> "none"], rejection |-> {}, suspended |-> FALSE]
          [] instance.configure = "builder" ->
                [threw |-> FALSE, err |-> NoErr, builder |-> applied,
                 returned |-> [kind |-> "MiddlewareBuilder"], rejection |-> {},
                 suspended |-> FALSE]
          [] instance.configure = "foreign" ->
                [threw |-> FALSE, err |-> NoErr, builder |-> applied,
                 returned |-> [kind |-> "Object"], rejection |-> {}, suspended |-> FALSE]
          [] instance.configure = "rejects" ->
                [threw |-> FALSE, err |-> NoErr, builder |-> applied,
                 returned |-> [kind |-> "Promise"], rejection |-> {HookError(module)},
                 suspended |-> FALSE]
          [] instance.configure = "async" ->
                [threw |-> FALSE, err |-> NoErr, builder |-> applied,
                 returned |-> [kind |-> "Promise"], rejection |-> {}, suspended |-> TRUE]

(* Every apply(...).forRoutes(...) creates a new configuration object: the *)
(* configurations an instance applies at its call-th configure() call.     *)
NewObjects(list, call) == [k \in 1..Len(list) |-> [list[k] EXCEPT !.call = call]]
InstanceAt(instance, call) ==
    [instance EXCEPT !.applies = NewObjects(@, call), !.late = NewObjects(@, call)]

(* How far a module's configure() call is and what it has applied to the   *)
(* builder it was given.                                                   *)
NoHook == [status |-> "none", applied |-> <<>>]
Hook(status, builder) == [status |-> status, applied |-> builder.collection]

(* MiddlewareBuilder.build() *)
Build(builder) == builder.collection

EntryIndex(cfgs, module) ==
    IF \E i \in 1..Len(cfgs) : cfgs[i].module = module
    THEN CHOOSE i \in 1..Len(cfgs) : cfgs[i].module = module
    ELSE 0

(* MiddlewareContainer.addConfig(configList, module) *)
AddConfig(cfgs, configList, module) ==
    LET i == EntryIndex(cfgs, module)
    IN  IF i = 0
        THEN Append(cfgs, [module |-> module, list |-> configList])
        ELSE [cfgs EXCEPT ![i].list = @ \o configList]

(* if (!instance.configure) return; *)
NoConfigure_emptyBuilder(cfgs, module) ==
    [threw |-> FALSE, err |-> NoErr,
     configs |-> AddConfig(cfgs, Build(NewMiddlewareBuilder), module),
     dropped |-> {}, builders |-> 1, hook |-> NoHook]
NoConfigure(cfgs, module) ==
    [threw |-> FALSE, err |-> NoErr, configs |-> cfgs, dropped |-> {}, builders |-> 0,
     hook |-> NoHook]

(* const config = middlewareBuilder.build();                               *)
(* middlewareContainer.addConfig(config, module);                          *)
AppendConfig_replace(cfgs, middlewareBuilder, module) ==
    IF EntryIndex(cfgs, module) # 0
    THEN [cfgs EXCEPT ![EntryIndex(cfgs, module)].list = Build(middlewareBuilder)]
    ELSE AddConfig(cfgs, Build(middlewareBuilder), module)
AppendConfig_once(cfgs, middlewareBuilder, module) ==
    IF EntryIndex(cfgs, module) # 0 THEN cfgs
    ELSE AddConfig(cfgs, Build(middlewareBuilder), module)
AppendConfig(cfgs, middlewareBuilder, module) ==
    AddConfig(cfgs, Build(middlewareBuilder), module)

(* loadConfiguration(middlewareContainer, instance, module): the container's *)
(* configurations afterwards, whether the call threw, and the rejections   *)
(* of promises it dropped.  The hook's return value is discarded: line 71  *)
(* tests the builder that line 68 constructed.  builders counts the        *)
(* builders the call constructed, hook tells how the configure() call went. *)
LoadConfiguration(cfgs, instance, module) ==
    IF instance.configure = "none"
    THEN NoConfigure(cfgs, module)
    ELSE LET call == Configure(instance, NewMiddlewareBuilder, module)
             middlewareBuilder == call.builder
             hook == Hook(IF call.threw THEN "threw"
                          ELSE IF call.suspended THEN "suspended" ELSE "returned",
                          middlewareBuilder)
         IN  IF call.threw
             THEN [threw |-> TRUE, err |-> call.err, configs |-> cfgs, dropped |-> {},
                   builders |-> 1, hook |-> hook]
             ELSE IF ~IsMiddlewareBuilder(middlewareBuilder)
             THEN [threw |-> FALSE, err |-> NoErr, configs |-> cfgs,
                   dropped |-> call.rejection, builders |-> 1, hook |-> hook]
             ELSE [threw |-> FALSE, err |-> NoErr,
                   configs |-> AppendConfig(cfgs, middlewareBuilder, module),
                   dropped |-> call.rejection, builders |-> 1, hook |-> hook]

(* The async callback of resolveMiddleware for module number i, up to its  *)
(* first await.                                                            *)
ModuleCallback_resolvesAnyway(S, i) ==
    LET name == ModuleOrder[i]
        lc == LoadConfiguration(S.configs, InstanceAt(modules[name], S.call), name)
    IN  [S EXCEPT !.hooks = [@ EXCEPT ![name] = lc.hook],
                  !.configs = lc.configs,
                  !.unhandled = @ \cup lc.dropped,
                  !.promise = Put(Put(@, <<1, i>>, Pending(1)), <<1, i, 1>>, Pending(0))]
ModuleCallback(S, i) ==
    LET name == ModuleOrder[i]
        lc == LoadConfiguration(S.configs, InstanceAt(modules[name], S.call), name)
    IN  IF lc.threw
        THEN [S EXCEPT !.hooks = [@ EXCEPT ![name] = lc.hook],
                       !.promise = Put(@, <<1, i>>, Rejected(lc.err)),
                       !.microtasks = Append(@, Job(<<1, i>>, FALSE, lc.err))]
        ELSE [S EXCEPT !.hooks = [@ EXCEPT ![name] = lc.hook],
                       !.configs = lc.configs,
                       !.unhandled = @ \cup lc.dropped,
                       !.promise = Put(Put(@, <<1, i>>, Pending(1)), <<1, i, 1>>, Pending(0))]

RECURSIVE ResolveModules(_, _)
ResolveModules(i, S) ==
    IF i > Len(ModuleOrder) THEN S ELSE ResolveModules(i + 1, ModuleCallback(S, i))

(* resolveMiddleware(middlewareContainer, modules), up to its first await:  *)
(* the map() has run the callback of every module.                         *)
ResolveMiddlewareCall ==
    LET S0 == [call |-> runs + 1, configs |-> configs, unhandled |-> unhandled,
               hooks |-> hooks,
               promise |-> Put(promise, <<1>>, Pending(Len(ModuleOrder))),
               microtasks |-> microtasks]
        S == ResolveModules(1, S0)
    IN  /\ configs' = S.configs
        /\ unhandled' = S.unhandled
        /\ hooks' = S.hooks
        /\ promise' = S.promise
        /\ microtasks' = S.microtasks
        /\ runs' = runs + 1

(* register(middlewareContainer, container, config), up to its first await *)
Register ==
    /\ pc = "start"
    /\ ResolveMiddlewareCall
    /\ pc' = "resolve"
    /\ UNCHANGED <<modules, wrappers, router, bind, firstFailure>>

(* The configure() hook of a module resumes after its await, in a later    *)
(* turn of the event loop, applies its last configuration to the builder   *)
(* it was given and completes.                                             *)
ResumeConfigure(m) ==
    /\ hooks[m].status = "suspended"
    /\ microtasks = <<>>
    /\ hooks' = [hooks EXCEPT ![m] = [status |-> "completed",
                                      applied |-> @.applied \o
                                                  InstanceAt(modules[m], runs).late]]
    /\ UNCHANGED <<modules, runs, configs, wrappers, promise, microtasks, router, bind,
                   unhandled, firstFailure, pc>>

(* The middleware classes the configurations of a module name. *)
DeclaredTypes(cfgs, module) ==
    LET i == EntryIndex(cfgs, module)
    IN  IF i = 0 THEN {}
        ELSE UNION {{ConcatEmpty(cfgs[i].list[c].middleware)[t] :
                        t \in 1..Len(ConcatEmpty(cfgs[i].list[c].middleware))} :
                    c \in 1..Len(cfgs[i].list)}

(* resolver.resolveInstances(module, name) settles: the injector has       *)
(* created an instance for the declared classes it provides and the        *)
(* resolver has stored each in the module's wrapper map.  A wrapper is     *)
(* created once per module and class: the classes that have one keep it.   *)
ResolveInstances(i) ==
    /\ Status(<<1, i, 1>>) = "pending"
    /\ microtasks = <<>>
    /\ LET name == ModuleOrder[i]
           declared == {t \in DeclaredTypes(configs, name) : ~wrappers[name][t].defined}
       IN  \/ \E provided \in [declared -> InstanceKinds \cup {"unprovided"}] :
                /\ wrappers' = [wrappers EXCEPT ![name] =
                        [t \in Types |->
                            IF t \in declared /\ provided[t] # "unprovided"
                            THEN Wrapper(name, t, provided[t])
                            ELSE @[t]]]
                /\ promise' = Put(promise, <<1, i, 1>>, Fulfilled)
                /\ microtasks' = Append(microtasks, Job(<<1, i, 1>>, TRUE, NoErr))
           \/ /\ promise' = Put(promise, <<1, i, 1>>, Rejected(InstancesError(name)))
              /\ microtasks' = Append(microtasks,
                                      Job(<<1, i, 1>>, FALSE, InstancesError(name)))
              /\ UNCHANGED wrappers
    /\ UNCHANGED <<modules, hooks, runs, configs, router, bind, unhandled, firstFailure, pc>>

-----------------------------------------------------------------------------
(* Phase 2: registerMiddleware() and the fan-out below it *)

(* The parts of a binding <<2, mi, ci, ri, ti>>. *)
ModuleOf(cfgs, leaf) == cfgs[leaf[2]].module
ConfigOf(cfgs, leaf) == cfgs[leaf[2]].list[leaf[3]]
RoutePathOf(cfgs, leaf) == ConfigOf(cfgs, leaf).forRoutes[leaf[4]]
MetatypeOf(cfgs, leaf) == ConcatEmpty(ConfigOf(cfgs, leaf).middleware)[leaf[5]]

(* The callbacks the four nested map() calls run, in the order they run:  *)
(* the bindings, depth first, and an entry ending in 0 where a map() runs  *)
(* over an empty collection.                                               *)
RouteItems(cfgs, mi, ci, ri) ==
    LET n == Len(ConcatEmpty(cfgs[mi].list[ci].middleware))
    IN  IF n = 0 THEN << <<2, mi, ci, ri, 0>> >>
        ELSE [ti \in 1..n |-> <<2, mi, ci, ri, ti>>]

ConfigItems(cfgs, mi, ci) ==
    LET n == Len(cfgs[mi].list[ci].forRoutes)
    IN  IF n = 0 THEN << <<2, mi, ci, 0>> >>
        ELSE Flat([ri \in 1..n |-> RouteItems(cfgs, mi, ci, ri)], n)

EntryItems(cfgs, mi) ==
    LET n == Len(cfgs[mi].list)
    IN  IF n = 0 THEN << <<2, mi, 0>> >>
        ELSE Flat([ci \in 1..n |-> ConfigItems(cfgs, mi, ci)], n)

Items(cfgs) ==
    IF Len(cfgs) = 0 THEN << <<2, 0>> >>
    ELSE Flat([mi \in 1..Len(cfgs) |-> EntryItems(cfgs, mi)], Len(cfgs))

Leaves(cfgs) ==
    LET items == Items(cfgs)
    IN  {items[k] : k \in {j \in 1..Len(items) : Last(items[j]) # 0}}

(* The promises of the async callbacks above the bindings, each waiting    *)
(* for the Promise.all of its children.                                    *)
ChildCount(cfgs, node) ==
    CASE Len(node) = 1 -> Len(cfgs)
      [] Len(node) = 2 -> Len(cfgs[node[2]].list)
      [] Len(node) = 3 -> Len(cfgs[node[2]].list[node[3]].forRoutes)
      [] Len(node) = 4 -> Len(ConcatEmpty(cfgs[node[2]].list[node[3]].middleware))

InnerNodes(cfgs) ==
    {<<2>>} \cup UNION {{SubSeq(l, 1, k) : k \in 2..(Len(l) - 1)} : l \in Leaves(cfgs)}
            \cup (LET items == Items(cfgs) IN {Front(items[k]) : k \in 1..Len(items)})

Max(a, b) == IF a > b THEN a ELSE b

(* The caller calls resolveMiddleware(middlewareContainer, modules) again,  *)
(* after the run before it has resolved and every hook has completed.      *)
ResolveMiddleware ==
    /\ pc = "resolve"
    /\ Status(<<1>>) = "fulfilled"
    /\ microtasks = <<>>
    /\ runs < MaxRuns
    /\ \A m \in ModuleNames : hooks[m].status # "suspended"
    /\ LET n == Cardinality(Leaves(configs)) IN n + (n \div runs) <= MaxBindings
    /\ ResolveMiddlewareCall
    /\ UNCHANGED <<modules, wrappers, router, bind, firstFailure, pc>>

(* The error registerMiddleware() met first, and the binding that raised it. *)
NoFailure == [leaf |-> <<>>, err |-> NoErr]
Failure(first, leaf, err) == IF first = NoFailure THEN [leaf |-> leaf, err |-> err] ELSE first

(* MiddlewareContainer.getMiddleware(module) *)
GetMiddleware(wr, module) == wr[module]

(* const collection = middlewareContainer.getMiddleware(module), in the    *)
(* callback that runs on behalf of module.                                 *)
CollectionFor_first(wr, module) == GetMiddleware(wr, ModuleOrder[1])
CollectionFor(wr, module) == GetMiddleware(wr, module)

(* isUndefined(middleware) *)
IsUndefined(w) == ~w.defined

(* isUndefined(instance.resolve) *)
ResolveIsUndefined_never(instance) == FALSE
ResolveIsUndefined(instance) == instance.kind = "noresolve"

(* What instance.resolve() returns. *)
ResolveResult(instance) ==
    [kind |-> instance.kind, of |-> <<instance.owner, instance.metatype>>]

(* The handler a resolve() result is or settles to. *)
HandlerOf(owner, metatype) == [kind |-> "handler", of |-> <<owner, metatype>>]

(* resolve instanceof Promise *)
IsPromise(v) == v.kind = "promise"

(* routerMethodFactory.get(applicationRef, method) *)
RouterMethod(method) ==
    CASE method = "ALL" -> "all"
      [] method = "GET" -> "get"
      [] method = "POST" -> "post"
      [] OTHER -> "use"

(* bindHandlerWithProxy(exceptionsHandler, router, middleware, path):      *)
(* the call the router receives.  by is the binding that made the call.    *)
BindHandlerWithProxy_noproxy(exceptionsHandler, method, middleware, path, by) ==
    [by |-> by, method |-> method, path |-> path, handler |-> middleware]
BindHandlerWithProxy(exceptionsHandler, method, middleware, path, by) ==
    [by |-> by, method |-> method, path |-> path,
     handler |-> [kind |-> "proxy", target |-> middleware,
                  exceptionsHandler |-> exceptionsHandler]]

(* this.routerExceptionFilter.create(instance, instance.resolve, undefined) *)
CreateExceptionsHandler(instance) == [instance |-> <<instance.owner, instance.metatype>>]

NoBinding == [state |-> "none", module |-> "", metatype |-> "", path |-> "",
              instance |-> <<>>, exceptionsHandler |-> FALSE, resolveCalled |-> FALSE,
              awaitable |-> "none"]

(* bindHandler(instance, metatype, applicationRef, method, path) up to its *)
(* first await, for the binding leaf.                                      *)
BindHandler(S, instance, metatype, method, path, leaf, module) ==
    LET bh == leaf \o <<1>>
        b0 == [NoBinding EXCEPT !.module = module, !.metatype = metatype, !.path = path,
                                !.instance = <<instance.owner, instance.metatype>>]
    IN  IF ResolveIsUndefined(instance)
        THEN [S EXCEPT
                !.firstFailure = Failure(@, leaf, InvalidMiddlewareException(metatype)),
                !.promise = Put(@, bh, Rejected(InvalidMiddlewareException(metatype))),
                !.microtasks = Append(@, Job(bh, FALSE, InvalidMiddlewareException(metatype))),
                !.bind = Put(@, leaf, [b0 EXCEPT !.state = "invalid"])]
        ELSE LET exceptionsHandler == CreateExceptionsHandler(instance)
                 router_ == RouterMethod(method)
                 resolve == ResolveResult(instance)
                 b1 == [b0 EXCEPT !.exceptionsHandler = TRUE, !.resolveCalled = TRUE]
             IN  IF ~IsPromise(resolve)
                 THEN [S EXCEPT
                        !.router = Append(@, BindHandlerWithProxy(exceptionsHandler,
                                                router_, resolve, path, leaf)),
                        !.promise = Put(@, bh, Fulfilled),
                        !.microtasks = Append(@, Job(bh, TRUE, NoErr)),
                        !.bind = Put(@, leaf,
                            [b1 EXCEPT !.state = "bound",
                                       !.awaitable = IF resolve.kind = "handler"
                                                     THEN "none" ELSE "pending"])]
                 ELSE [S EXCEPT
                        !.promise = Put(Put(@, bh, Pending(1)), bh \o <<1>>, Pending(0)),
                        !.bind = Put(@, leaf,
                            [b1 EXCEPT !.state = "awaiting", !.awaitable = "pending"])]

(* What a missing wrapper does to the callback of a binding. *)
MissingWrapper_skip(S, leaf, module, metatype, path) ==
    [S EXCEPT !.promise = Put(@, leaf, Fulfilled),
              !.microtasks = Append(@, Job(leaf, TRUE, NoErr)),
              !.bind = Put(@, leaf, [NoBinding EXCEPT !.state = "unresolved",
                            !.module = module, !.metatype = metatype, !.path = path])]
MissingWrapper(S, leaf, module, metatype, path) ==
    [S EXCEPT !.firstFailure = Failure(@, leaf, RuntimeException),
              !.promise = Put(@, leaf, Rejected(RuntimeException)),
              !.microtasks = Append(@, Job(leaf, FALSE, RuntimeException)),
              !.bind = Put(@, leaf, [NoBinding EXCEPT !.state = "unresolved",
                            !.module = module, !.metatype = metatype, !.path = path])]

(* The async callback of registerRouteMiddleware for one middleware type,  *)
(* up to its first await.                                                  *)
RouteMiddlewareCallback(S, cfgs, wr, leaf) ==
    LET module == ModuleOf(cfgs, leaf)
        routePath == RoutePathOf(cfgs, leaf)
        metatype == MetatypeOf(cfgs, leaf)
        collection == CollectionFor(wr, module)
        middleware == collection[metatype]
    IN  IF IsUndefined(middleware)
        THEN MissingWrapper(S, leaf, module, metatype, routePath)
        ELSE BindHandler([S EXCEPT !.promise = Put(@, leaf, Pending(1))],
                         middleware, metatype, "ALL", routePath, leaf, module)

RECURSIVE RunCallbacks(_, _, _, _)
RunCallbacks(S, cfgs, wr, items) ==
    IF items = <<>> THEN S
    ELSE LET item == Head(items)
             next == IF Last(item) = 0
                     THEN [S EXCEPT !.microtasks = Append(@, Job(item, TRUE, NoErr))]
                     ELSE RouteMiddlewareCallback(S, cfgs, wr, item)
         IN  RunCallbacks(next, cfgs, wr, Tail(items))

(* registerMiddleware(middlewareContainer, applicationRef), up to its      *)
(* first await: every map() callback down to the bindings has run.         *)
RegisterMiddleware ==
    /\ pc = "resolve"
    /\ Status(<<1>>) = "fulfilled"
    /\ microtasks = <<>>
    /\ LET inner == [n \in InnerNodes(configs) |-> Pending(Max(ChildCount(configs, n), 1))]
           S0 == [promise |-> inner @@ promise, microtasks |-> microtasks,
                  router |-> router, bind |-> bind, firstFailure |-> firstFailure]
           S == RunCallbacks(S0, configs, wrappers, Items(configs))
       IN  /\ promise' = S.promise
           /\ microtasks' = S.microtasks
           /\ router' = S.router
           /\ bind' = S.bind
           /\ firstFailure' = S.firstFailure
    /\ pc' = "bind"
    /\ UNCHANGED <<modules, hooks, runs, configs, wrappers, unhandled>>

(* The native Promise a resolve() call returned settles, in a later turn   *)
(* of the event loop (a timer, input or output the middleware waits for):  *)
(* the job queue has run empty.  bindHandler is waiting for it at line     *)
(* 176.  An awaitable of any other kind is not awaited by anything here,   *)
(* so its settlement is not an event of the model.                         *)
SettleResolve(leaf, ok) ==
    /\ leaf \in DOMAIN bind
    /\ bind[leaf].awaitable = "pending"
    /\ Status(leaf \o <<1, 1>>) = "pending"
    /\ microtasks = <<>>
    /\ bind' = [bind EXCEPT ![leaf].awaitable = IF ok THEN "fulfilled" ELSE "rejected"]
    /\ LET p == leaf \o <<1, 1>>
           err == IF ok THEN NoErr
                  ELSE ResolveError(bind[leaf].instance[1], bind[leaf].instance[2])
       IN  /\ promise' = Put(promise, p, IF ok THEN Fulfilled ELSE Rejected(err))
           /\ microtasks' = Append(microtasks, Job(p, ok, err))
    /\ UNCHANGED <<modules, hooks, runs, configs, wrappers, router, unhandled,
                   firstFailure, pc>>

(* A job of the queue: bindHandler resumes after `await resolve` (lines    *)
(* 176-177) and binds the settled value.                                   *)
ResumeBindHandler ==
    /\ microtasks # <<>>
    /\ Len(Head(microtasks).node) = 7
    /\ LET job == Head(microtasks)
           bh == Front(job.node)
           leaf == Front(bh)
           b == bind[leaf]
       IN  IF job.ok
           THEN /\ router' = Append(router,
                        BindHandlerWithProxy([instance |-> b.instance], RouterMethod("ALL"),
                                             HandlerOf(b.instance[1], b.instance[2]),
                                             b.path, leaf))
                /\ promise' = Put(promise, bh, Fulfilled)
                /\ microtasks' = Append(Tail(microtasks), Job(bh, TRUE, NoErr))
                /\ bind' = [bind EXCEPT ![leaf].state = "bound"]
                /\ UNCHANGED firstFailure
           ELSE /\ promise' = Put(promise, bh, Rejected(job.err))
                /\ microtasks' = Append(Tail(microtasks), Job(bh, FALSE, job.err))
                /\ bind' = [bind EXCEPT ![leaf].state = "failed"]
                /\ firstFailure' = Failure(firstFailure, leaf, job.err)
                /\ UNCHANGED router
    /\ UNCHANGED <<modules, hooks, runs, configs, wrappers, unhandled, pc>>

(* A job of the queue: the settlement of a promise reaches the async       *)
(* function that awaits it, directly or through Promise.all, which rejects *)
(* with the first rejection and fulfils with the last fulfilment.          *)
Settle(p, job) ==
    IF p.status # "pending" THEN p
    ELSE IF ~job.ok THEN Rejected(job.err)
    ELSE IF p.remaining > 1 THEN Pending(p.remaining - 1)
    ELSE Fulfilled

Propagate ==
    /\ microtasks # <<>>
    /\ Len(Head(microtasks).node) # 7
    /\ LET job == Head(microtasks)
           parent == Front(job.node)
           after == Settle(promise[parent], job)
           settled == promise[parent].status = "pending" /\ after.status # "pending"
       IN  /\ promise' = Put(promise, parent, after)
           /\ microtasks' =
                IF settled /\ Len(parent) > 1
                THEN Append(Tail(microtasks), Job(parent, job.ok, after.err))
                ELSE Tail(microtasks)
    /\ UNCHANGED <<modules, hooks, runs, configs, wrappers, router, bind, unhandled,
                   firstFailure, pc>>

-----------------------------------------------------------------------------
(* The module instances of a run.  A hook that does not return its builder *)
(* declares one binding, in a run where the other module declares none; an *)
(* async hook declares one or two, in such a run.                          *)
HooksFor(n, other) ==
    {h \in HookKinds :
        CASE h \in {"none", "throws"} -> n = 0
          [] h \in {"foreign", "rejects"} -> n = 1 /\ other = 0
          [] h = "async" -> n \in 1..2 /\ other = 0
          [] OTHER -> TRUE}

(* A module instance: its hook, the configurations the hook applies before *)
(* it returns and those it applies after it has resumed from an await.     *)
Instance(h, list) ==
    IF h = "async"
    THEN [configure |-> h, applies |-> Front(list), late |-> <<Last(list)>>]
    ELSE [configure |-> h, applies |-> list, late |-> <<>>]

(* Class names and paths are labels the code never inspects: of the runs   *)
(* that differ only by renaming them, the one whose first declared class   *)
(* and first declared path are the first of their lists is taken.          *)
Canonical(list) ==
    list # <<>> =>
        /\ list[1].forRoutes[1] = RouteOrder[1]
        /\ (IF list[1].middleware.isArray
            THEN list[1].middleware.items[1]
            ELSE list[1].middleware.item) = TypeOrder[1]

Init ==
    /\ \E n1 \in 0..MaxBindings : \E n2 \in 0..(MaxBindings - n1) :
       \E l1 \in ListsWith[n1], l2 \in ListsWith[n2] :
       \E h1 \in HooksFor(n1, n2), h2 \in HooksFor(n2, n1) :
            /\ Canonical(l1 \o l2)
            /\ modules = [m \in ModuleNames |->
                        IF m = ModuleOrder[1] THEN Instance(h1, l1) ELSE Instance(h2, l2)]
    /\ hooks = [m \in ModuleNames |-> NoHook]
    /\ runs = 0
    /\ firstFailure = NoFailure
    /\ configs = <<>>
    /\ wrappers = [m \in ModuleNames |-> [t \in Types |-> NoWrapper]]
    /\ promise = <<>>
    /\ microtasks = <<>>
    /\ router = <<>>
    /\ bind = <<>>
    /\ unhandled = {}
    /\ pc = "start"

Next ==
    \/ Register
    \/ \E m \in ModuleNames : ResumeConfigure(m)
    \/ \E i \in 1..Len(ModuleOrder) : ResolveInstances(i)
    \/ ResolveMiddleware
    \/ RegisterMiddleware
    \/ \E leaf \in DOMAIN bind, ok \in BOOLEAN : SettleResolve(leaf, ok)
    \/ ResumeBindHandler
    \/ Propagate

Spec == Init /\ [][Next]_vars

(* The run time runs every job of its queue, and every native Promise a    *)
(* resolve() call returned eventually settles.                             *)
FairSpec ==
    /\ Spec
    /\ WF_vars(Propagate)
    /\ WF_vars(ResumeBindHandler)
    /\ WF_vars(\E leaf \in DOMAIN bind, ok \in BOOLEAN : SettleResolve(leaf, ok))

-----------------------------------------------------------------------------
(* What the claims speak about *)

(* A middleware field read as the sequence of classes it declares. *)
DeclaredMiddleware(mw) == IF mw.isArray THEN mw.items ELSE <<mw.item>>

(* The (module, configuration, route, middleware type) quadruples of the   *)
(* registry, by their positions.                                           *)
Quadruples ==
    UNION {UNION {UNION {
        {<<2, mi, ci, ri, ti>> :
            ti \in 1..Len(DeclaredMiddleware(configs[mi].list[ci].middleware))} :
        ri \in 1..Len(configs[mi].list[ci].forRoutes)} :
        ci \in 1..Len(configs[mi].list)} :
        mi \in 1..Len(configs)}

QModule(q) == configs[q[2]].module
QRoute(q) == configs[q[2]].list[q[3]].forRoutes[q[4]]
QType(q) == DeclaredMiddleware(configs[q[2]].list[q[3]].middleware)[q[5]]
QWrapper(q) == wrappers[QModule(q)][QType(q)]

RegistrationsBy(q) == {i \in 1..Len(router) : router[i].by = q}

RegisterResolved == Status(<<1>>) = "fulfilled"
RegisterMiddlewareResolved == Status(<<2>>) = "fulfilled"
RegisterMiddlewareRejected == Status(<<2>>) = "rejected"

(* One module applies one middleware type to one route through a hook that *)
(* returns its builder, the other module declares nothing, the resolver    *)
(* has provided an instance whose resolve() returns a handler, and         *)
(* resolveMiddleware() has run once, from register().                      *)
SingleBinding(m) ==
    /\ runs = 1
    /\ modules[m].configure = "builder"
    /\ Len(modules[m].applies) = 1
    /\ Len(DeclaredMiddleware(modules[m].applies[1].middleware)) = 1
    /\ Len(modules[m].applies[1].forRoutes) = 1
    /\ \A o \in ModuleNames \ {m} : modules[o].applies = <<>>
    /\ LET w == wrappers[m][DeclaredMiddleware(modules[m].applies[1].middleware)[1]]
       IN  w.defined /\ w.kind = "handler"

C2_OneRegistrationPerQuadruple ==
    RegisterMiddlewareResolved =>
        /\ Len(router) = Cardinality(Quadruples)
        /\ \A q \in Quadruples :
            /\ Cardinality(RegistrationsBy(q)) = 1
            /\ \A i \in RegistrationsBy(q) :
                /\ router[i].method = "all"
                /\ router[i].path = QRoute(q)
                /\ router[i].handler.exceptionsHandler.instance = <<QModule(q), QType(q)>>

C2_Witness ==
    /\ RegisterMiddlewareResolved
    /\ Len(router) >= 2
    /\ \E q \in Quadruples : ~configs[q[2]].list[q[3]].middleware.isArray

(* C3, as claimed: the registrations of the middleware types of one        *)
(* configuration for one route reach the router in declared order.         *)
C3_DeclaredOrder ==
    \A i, j \in 1..Len(router) :
        /\ SubSeq(router[i].by, 1, 4) = SubSeq(router[j].by, 1, 4)
        /\ router[i].by[5] < router[j].by[5]
        => i < j

(* C4, as claimed: when a configure() hook raised an error, synchronously  *)
(* or through the Promise it returned, and no instance resolution failed,  *)
(* resolveMiddleware settles rejected with the error of such a hook.       *)
HookRaised(m) == modules[m].configure \in {"throws", "rejects"}

C4_HookErrorPropagates ==
    /\ \E m \in ModuleNames : HookRaised(m)
    /\ \A i \in 1..Len(ModuleOrder) : Status(<<1, i, 1>>) # "rejected"
    /\ Status(<<1>>) \in {"fulfilled", "rejected"}
    => /\ Status(<<1>>) = "rejected"
       /\ promise[<<1>>].err \in {HookError(m) : m \in {n \in ModuleNames : HookRaised(n)}}

(* C5, as claimed: configurations are appended for a module only when its  *)
(* configure() hook returned the builder.                                  *)
C5_ForeignReturnAppendsNothing ==
    \A m \in ModuleNames :
        EntryIndex(configs, m) # 0 =>
            Configure(modules[m], NewMiddlewareBuilder, m).returned.kind = "MiddlewareBuilder"

(* C6: when a quadruple of the registry names a middleware type without a  *)
(* wrapper in its module's map, registerMiddleware never resolves, it      *)
(* rejects with the RuntimeException and has done so when the job queue    *)
(* has run empty.                                                          *)
MissingWrapperDeclared == \E q \in Quadruples : ~QWrapper(q).defined

C6_MissingWrapperRejects ==
    pc = "bind" /\ MissingWrapperDeclared =>
        /\ ~RegisterMiddlewareResolved
        /\ RegisterMiddlewareRejected => promise[<<2>>].err = RuntimeException
        /\ microtasks = <<>> => RegisterMiddlewareRejected

C6_Witness ==
    /\ pc = "bind"
    /\ MissingWrapperDeclared
    /\ RegisterMiddlewareRejected
    /\ \E q \in Quadruples : QWrapper(q).defined

(* C7: for a binding whose instance has no resolve, bindHandler rejects    *)
(* with the InvalidMiddlewareException that names the metatype, builds no  *)
(* exception handler, does not call resolve() and registers nothing with   *)
(* the router; the binding's callback rejects with the same exception,     *)
(* registerMiddleware never resolves, and when no wrapper is missing it    *)
(* rejects with the InvalidMiddlewareException of such a binding.          *)
NoResolve(q) == QWrapper(q).defined /\ QWrapper(q).kind = "noresolve"

C8_SameRegistration ==
    \A q \in DOMAIN bind :
        Status(q \o <<1>>) = "fulfilled" =>
            /\ Cardinality(RegistrationsBy(q)) = 1
            /\ \A i \in RegistrationsBy(q) :
                router[i] = [by |-> q, method |-> "all", path |-> bind[q].path,
                             handler |-> [kind |-> "proxy",
                                          target |-> HandlerOf(bind[q].instance[1],
                                                               bind[q].instance[2]),
                                          exceptionsHandler |->
                                                [instance |-> bind[q].instance]]]

(* C9, as claimed: when resolve() returned an awaitable, the router        *)
(* registration of the binding is made after the awaitable has settled,    *)
(* the proxy wraps the settled handler and not the awaitable, and          *)
(* bindHandler does not complete without the registration.                 *)
C9_BindAfterSettlement ==
    /\ \A i \in 1..Len(router) :
        bind[router[i].by].awaitable # "none" =>
            /\ bind[router[i].by].awaitable = "fulfilled"
            /\ router[i].handler.target.kind = "handler"
    /\ \A q \in DOMAIN bind :
        bind[q].awaitable # "none" /\ Status(q \o <<1>>) = "fulfilled" =>
            RegistrationsBy(q) # {}

(* C10: every registration made for a binding of a module wraps the        *)
(* handler and the exception handler of the instance stored under that     *)
(* same module.                                                            *)
C10_OwnModuleInstance ==
    \A i \in 1..Len(router) :
        /\ router[i].handler.target.of[1] = QModule(router[i].by)
        /\ router[i].handler.exceptionsHandler.instance[1] = QModule(router[i].by)

C10_Witness ==
    \E i, j \in 1..Len(router) :
        /\ QModule(router[i].by) # QModule(router[j].by)
        /\ QType(router[i].by) = QType(router[j].by)

(* C11, as claimed: when a branch of the binding fan-out has failed         *)
(* (missing wrapper, missing resolve, a resolve() Promise rejecting),       *)
(* registerMiddleware never resolves, it has rejected once the job queue    *)
(* has run empty, and the error it rejects with is the error of the branch  *)
(* that failed first in time.                                               *)
C11_FirstFailureWins ==
    pc = "bind" /\ firstFailure # NoFailure =>
        /\ ~RegisterMiddlewareResolved
        /\ microtasks = <<>> => RegisterMiddlewareRejected
        /\ RegisterMiddlewareRejected => promise[<<2>>].err = firstFailure.err

(* C12: loadConfiguration for an instance without a configure hook returns *)
(* normally, constructs no builder and returns the registry it was given:   *)
(* no hook call is recorded for the module and no configuration is ever     *)
(* appended under its name, its callback goes on to resolveInstances, and   *)
(* when no module has a hook the configuration lists and the wrapper maps   *)
(* stay as they were before the run.                                        *)
HasNoHook(m) == modules[m].configure = "none"

C12_NoHookNoEffect ==
    /\ \A i \in 1..Len(ModuleOrder) :
        HasNoHook(ModuleOrder[i]) =>
            /\ LET lc == LoadConfiguration(configs, modules[ModuleOrder[i]], ModuleOrder[i])
               IN  ~lc.threw /\ lc.builders = 0 /\ lc.configs = configs /\ lc.dropped = {}
            /\ hooks[ModuleOrder[i]] = NoHook
            /\ EntryIndex(configs, ModuleOrder[i]) = 0
            /\ pc # "start" => Status(<<1, i, 1>>) # "none"
    /\ (\A m \in ModuleNames : HasNoHook(m)) =>
            /\ configs = <<>>
            /\ wrappers = [m \in ModuleNames |-> [t \in Types |-> NoWrapper]]

C12_Witness ==
    /\ runs = MaxRuns
    /\ \E m \in ModuleNames : HasNoHook(m)
    /\ \E i \in 1..Len(configs) : configs[i].list # <<>>

(* RouterProxy.createProxy(targetHandler, exceptionsHandler) at request    *)
(* time: what one request to a handler the router holds does, when the     *)
(* target throws (or is no function) and when it does not: the exception   *)
(* handlers whose handle() is called, and whether the error escapes.       *)
Invoke(handler, throws) ==
    IF handler.kind = "proxy"
    THEN [handled |-> IF throws THEN <<handler.exceptionsHandler>> ELSE <<>>,
          escaped |-> FALSE]
    ELSE [handled |-> <<>>, escaped |-> throws]

(* C13: every handler the router has received is a proxy of the value      *)
(* obtained from resolve() of the binding's instance and of the exception  *)
(* handler created for that same instance, never that value itself: a      *)
(* request whose middleware throws calls handle() of that exception        *)
(* handler exactly once and the error does not escape the proxy.           *)
C13_ProxyIsolatesFaults ==
    \A i \in 1..Len(router) :
        LET w == QWrapper(router[i].by)
            h == router[i].handler
        IN  /\ h.kind = "proxy"
            /\ (h.target = ResolveResult(w) \/ h.target = HandlerOf(w.owner, w.metatype))
            /\ h.exceptionsHandler = CreateExceptionsHandler(w)
            /\ Invoke(h, TRUE) = [handled |-> <<CreateExceptionsHandler(w)>>,
                                  escaped |-> FALSE]
            /\ Invoke(h, FALSE) = [handled |-> <<>>, escaped |-> FALSE]

C13_Witness ==
    \E i, j \in 1..Len(router) :
        /\ bind[router[i].by].awaitable = "fulfilled"
        /\ bind[router[j].by].awaitable = "none"
        /\ QWrapper(router[i].by) # QWrapper(router[j].by)

(* C14, as claimed: once the configure() hook of a module has completed,   *)
(* every configuration it applied to its builder, those applied after it   *)
(* had suspended at an await included, is in the list the registry holds   *)
(* for the module.                                                         *)
C14_AllAppliesAppended ==
    \A m \in ModuleNames :
        hooks[m].status \in {"returned", "completed"} =>
            \A k \in 1..Len(hooks[m].applied) :
                \E i \in 1..Len(configs) :
                    /\ configs[i].module = m
                    /\ \E j \in 1..Len(configs[i].list) :
                            configs[i].list[j] = hooks[m].applied[k]

(* C15, as claimed: once registerMiddleware has rejected, the router       *)
(* receives no further registration: a branch that was waiting for its     *)
(* resolve() Promise when the first failure occurred does not register     *)
(* its handler afterwards.                                                 *)
C15_NoBindingAfterRejection == [][RegisterMiddlewareRejected => router' = router]_vars

(* C16: for every module, resolveInstances(module, name) has been started  *)
(* only when loadConfiguration for that module has returned: the module's  *)
(* hook, if it has one, has been called and did not throw, and what the    *)
(* hook applied before it returned, at this call and at those of the runs  *)
(* before, is in the module's list; for a module whose hook threw it has   *)
(* not been started.                                                       *)
Started(i) == Status(<<1, i, 1>>) # "none"

InList(c, m) ==
    \E e \in 1..Len(configs) :
        configs[e].module = m /\ \E j \in 1..Len(configs[e].list) : configs[e].list[j] = c

C16_ResolveAfterLoad ==
    \A i \in 1..Len(ModuleOrder) :
        LET m == ModuleOrder[i]
        IN  /\ Started(i) /\ ~HasNoHook(m) =>
                /\ hooks[m].status \in {"returned", "suspended", "completed"}
                /\ EntryIndex(configs, m) # 0
                /\ \A r \in 1..runs :
                    \A k \in 1..Len(modules[m].applies) :
                        InList([modules[m].applies[k] EXCEPT !.call = r], m)
            /\ hooks[m].status = "threw" => ~Started(i)

C16_Witness ==
    \E i, j \in 1..Len(ModuleOrder) :
        /\ hooks[ModuleOrder[i]].status = "threw"
        /\ ~Started(i)
        /\ Started(j)
        /\ modules[ModuleOrder[j]].applies # <<>>

(* C17, as claimed: once the branch of one module has failed because its   *)
(* configure() hook threw, no hook is invoked, no configuration is         *)
(* appended and no instance resolution is started for a module whose       *)
(* callback comes after it in the map.                                     *)
C17_AbortAfterFailure ==
    \A i, j \in 1..Len(ModuleOrder) :
        i < j /\ hooks[ModuleOrder[i]].status = "threw" =>
            /\ hooks[ModuleOrder[j]].status = "none"
            /\ EntryIndex(configs, ModuleOrder[j]) = 0
            /\ ~Started(j)

(* C18: every run of resolveMiddleware makes exactly one append for each   *)
(* module whose configure() hook returns normally, of what the hook        *)
(* applied before it returned, under the module's own name, and none for   *)
(* a module without a hook or whose hook throws: after n runs the          *)
(* registry holds, for such a module, one entry whose list is the lists    *)
(* of its n calls one after the other, nothing deduplicated or replaced.   *)
(* The list of a module after n runs: position j holds the configuration   *)
(* its hook applies at that place, created by the call of that run.        *)
IsAppended(list, m, n) ==
    LET each == Len(modules[m].applies)
    IN  /\ Len(list) = n * each
        /\ \A j \in 1..Len(list) :
                list[j] = [modules[m].applies[((j - 1) % each) + 1]
                                EXCEPT !.call = ((j - 1) \div each) + 1]

ReturnsNormally(m) == modules[m].configure \in {"builder", "foreign", "rejects", "async"}

C18_OneAppendPerRun ==
    /\ \A e \in 1..Len(configs) :
        /\ configs[e].module \in ModuleNames
        /\ \A f \in 1..Len(configs) : configs[f].module = configs[e].module => f = e
    /\ \A m \in ModuleNames :
        IF ReturnsNormally(m) /\ runs > 0
        THEN \E e \in 1..Len(configs) :
                configs[e].module = m /\ IsAppended(configs[e].list, m, runs)
        ELSE \A e \in 1..Len(configs) : configs[e].module # m

C18_Witness ==
    /\ runs >= 2
    /\ \E m \in ModuleNames : HasNoHook(m)
    /\ \E e \in 1..Len(configs) :
        /\ Len(configs[e].list) >= 2
        /\ configs[e].list[1].call # configs[e].list[2].call

(* C19, as claimed: when every awaitable a resolve() call returned         *)
(* eventually settles, registerMiddleware, once called, eventually         *)
(* resolves or rejects; and it does not complete while no branch has       *)
(* failed and an awaitable a resolve() call returned has not settled.      *)
RegisterMiddlewareCompleted == RegisterMiddlewareResolved \/ RegisterMiddlewareRejected

AwaitableUnsettled == \E q \in DOMAIN bind : bind[q].awaitable = "pending"

C19_CompletesIffAwaitablesSettle ==
    /\ (pc = "bind") ~> RegisterMiddlewareCompleted
    /\ [](firstFailure = NoFailure /\ AwaitableUnsettled => ~RegisterMiddlewareCompleted)

(* C20: in every step, whatever calls it belongs to, every entry of the    *)
(* registry keeps its place and its module, its list is only extended at   *)
(* its end, and every wrapper stays as it is; a step of the binding phase  *)
(* (the registerMiddleware call and all that follows it) changes neither   *)
(* the configurations nor the wrappers, whether it succeeds or rejects.    *)
C20_RegistryOnlyGrows ==
    [][/\ \A e \in 1..Len(configs) :
            /\ e <= Len(configs')
            /\ configs'[e].module = configs[e].module
            /\ Len(configs'[e].list) >= Len(configs[e].list)
            /\ SubSeq(configs'[e].list, 1, Len(configs[e].list)) = configs[e].list
       /\ \A m \in ModuleNames, t \in Types :
            wrappers[m][t].defined => wrappers'[m][t] = wrappers[m][t]
       /\ pc' = "bind" => configs' = configs /\ wrappers' = wrappers]_vars

C20_Witness ==
    /\ pc = "bind"
    /\ runs >= 2
    /\ RegisterMiddlewareCompleted
    /\ \E e \in 1..Len(configs) : Len(configs[e].list) >= 2
    /\ \E m \in ModuleNames, t \in Types : wrappers[m][t].defined

====
